---------------------------- MODULE Spec2Model ----------------------------
(***************************************************************************)
(* A model of kanata-lsp (src/kanata-lsp/src/main.rs): the language server *)
(* for kanata keyboard configurations.  Texts are sequences of characters; *)
(* a character is a string: an ASCII character is itself, any other        *)
(* character is named by its code point ("U+00E9").  Offsets into a text   *)
(* are byte offsets of its UTF-8 encoding, as they are in the source.      *)
(***************************************************************************)
EXTENDS Integers, Sequences, FiniteSets, TLC

VARIABLES
    symbols_cache,      \* KanataLanguageServer.symbols_cache: Url -> DocumentSymbols
    diagnostics_cache,  \* KanataLanguageServer.diagnostics_cache: Url -> Vec<Diagnostic>
    client,             \* the editor: Url -> the diagnostics of the last publishDiagnostics
    files,              \* the file system: Url -> the text stored on disk
    buffers,            \* the editor: Url -> the text of the last open/change notification
    scratch,            \* the content of the fixed temporary file kanata-temp.kbd
    received,           \* the number of open and change notifications received
    calls,              \* the validate_document invocations that run step by step,
                        \* in order of arrival (none where handlers run whole)
    reply,              \* the last request answered and its response
    ftext,              \* formatter: the document text handed to format_document
    fout,               \* formatter: format_document(ftext)
    fout2,              \* formatter: format_document(fout)
    fpc,                \* formatter: position of the formatting run
    treport,            \* translator: the validator's error report
    ttext,              \* translator: the live document text
    tinfo,              \* translator: extract_line_info(treport)
    tdiag,              \* translator: the diagnostics built from the report
    tpc,                \* translator: position of the translation run
    etext,              \* extractor: the document text handed to extract_symbols
    esyms,              \* extractor: extract_symbols(etext)
    epc,                \* extractor: position of the extraction run
    wtext,              \* resolver: the text handed to get_word_at_position
    wposition,          \* resolver: the cursor position
    wword,              \* resolver: get_word_at_position(wtext, wposition)
    wpc                 \* resolver: position of the resolution run

vars == <<symbols_cache, diagnostics_cache, client, files, buffers, scratch,
          received, calls, reply, ftext, fout, fout2, fpc, treport, ttext, tinfo, tdiag,
          tpc, etext, esyms, epc, wtext, wposition, wword, wpc>>

serverVars == <<symbols_cache, diagnostics_cache, client, files, buffers,
                scratch, received, calls, reply>>
formatVars == <<ftext, fout, fout2, fpc>>
translateVars == <<treport, ttext, tinfo, tdiag, tpc>>
extractVars == <<etext, esyms, epc>>
wordVars == <<wtext, wposition, wword, wpc>>

---------------------------------------------------------------------------
(* Characters *)

\* char::is_whitespace, on the characters the model uses
Whitespace == {" ", "\t", "\n", "\r"}

Digits == {"0", "1", "2", "3", "4", "5", "6", "7", "8", "9"}

Letters == {"a", "b", "c", "d", "e", "f", "g", "h", "i", "j", "k", "l", "m",
            "n", "o", "p", "q", "r", "s", "t", "u", "v", "w", "x", "y", "z"}

\* Characters whose UTF-8 encoding takes two and three bytes
TwoByteChars == {"U+00E9"}
ThreeByteChars == {"U+2502", "U+256D", "U+2500", "U+25B6", "U+251C", "U+2570",
                   "U+4E2D"}

\* char::is_alphanumeric
is_alphanumeric(c) == c \in Letters \cup Digits \cup {"U+00E9", "U+4E2D"}

is_whitespace(c) == c \in Whitespace

\* char::len_utf8
len_utf8(c) == IF c \in TwoByteChars THEN 2 ELSE IF c \in ThreeByteChars THEN 3 ELSE 1

---------------------------------------------------------------------------
(* Strings: the operations of str the source uses *)

Max(a, b) == IF a >= b THEN a ELSE b

Take(s, n) == SubSeq(s, 1, n)

Drop(s, n) == SubSeq(s, n + 1, Len(s))

RECURSIVE len(_)
\* str::len: the length in bytes
len(s) == IF s = <<>> THEN 0 ELSE len_utf8(Head(s)) + len(Tail(s))

\* char count of a string: chars().count(); graphemes(true).count() on the
\* model's characters, none of which combines with its neighbour
chars_count(s) == Len(s)

\* the byte offset at which the character of (0-based) index k starts
byte_offset(s, k) == len(Take(s, k))

\* whether byte offset b is a character boundary of s (str::is_char_boundary)
is_char_boundary(s, b) == \E k \in 0..Len(s) : byte_offset(s, k) = b

\* the index of the character that starts at byte offset b, a boundary
char_index(s, b) == CHOOSE k \in 0..Len(s) : byte_offset(s, k) = b

starts_with(s, p) == Len(p) <= Len(s) /\ Take(s, Len(p)) = p

\* the number of leading whitespace characters
LeadingWs(s) ==
    IF \A i \in 1..Len(s) : is_whitespace(s[i]) THEN Len(s)
    ELSE (CHOOSE i \in 1..Len(s) :
            ~is_whitespace(s[i]) /\ \A j \in 1..(i - 1) : is_whitespace(s[j])) - 1

TrailingWs(s) ==
    IF \A i \in 1..Len(s) : is_whitespace(s[i]) THEN Len(s)
    ELSE Len(s) - (CHOOSE i \in 1..Len(s) :
            ~is_whitespace(s[i]) /\ \A j \in (i + 1)..Len(s) : is_whitespace(s[j]))

trim_start(s) == Drop(s, LeadingWs(s))

trim_end(s) == Take(s, Len(s) - TrailingWs(s))

trim(s) == trim_end(trim_start(s))

RECURSIVE trim_start_matches(_, _)
\* str::trim_start_matches: every repetition of the prefix is removed
trim_start_matches(s, p) ==
    IF p # <<>> /\ starts_with(s, p) THEN trim_start_matches(Drop(s, Len(p)), p) ELSE s

\* str::find of a pattern: the (0-based) character index of the first
\* occurrence, -1 when there is none
FindIdx(s, p) ==
    LET hits == {i \in 0..(Len(s) - Len(p)) : SubSeq(s, i + 1, i + Len(p)) = p}
    IN  IF hits = {} THEN -1 ELSE CHOOSE i \in hits : \A j \in hits : i <= j

contains(s, p) == FindIdx(s, p) >= 0

\* str::find of a character predicate given as a set of characters
FindCharIdx(s, set) ==
    LET hits == {i \in 0..(Len(s) - 1) : s[i + 1] \in set}
    IN  IF hits = {} THEN -1 ELSE CHOOSE i \in hits : \A j \in hits : i <= j

RECURSIVE SplitOn(_, _)
\* str::split on one character: the pieces between its occurrences
SplitOn(s, c) ==
    LET i == FindCharIdx(s, {c})
    IN  IF i < 0 THEN <<s>> ELSE <<Take(s, i)>> \o SplitOn(Drop(s, i + 1), c)

RECURSIVE RawLines(_)
RawLines(s) ==
    LET i == FindCharIdx(s, {"\n"})
    IN  IF i < 0 THEN (IF s = <<>> THEN <<>> ELSE <<s>>)
        ELSE <<Take(s, i)>> \o RawLines(Drop(s, i + 1))

StripCr(l) == IF l # <<>> /\ l[Len(l)] = "\r" THEN Take(l, Len(l) - 1) ELSE l

\* str::lines: split at line feeds, a carriage return before one removed,
\* no empty last line for a final line feed
lines(s) == LET raw == RawLines(s) IN [i \in 1..Len(raw) |-> StripCr(raw[i])]

RECURSIVE join(_, _)
\* [String]::join
join(ls, sep) ==
    IF ls = <<>> THEN <<>>
    ELSE IF Len(ls) = 1 THEN ls[1]
    ELSE ls[1] \o sep \o join(Tail(ls), sep)

\* " ".repeat(n)
spaces(n) == [i \in 1..n |-> " "]

RECURSIVE split_whitespace(_)
\* str::split_whitespace: the maximal runs of non-whitespace characters
split_whitespace(s) ==
    LET t == trim_start(s)
        e == FindCharIdx(t, Whitespace)
    IN  IF t = <<>> THEN <<>>
        ELSE IF e < 0 THEN <<t>>
        ELSE <<Take(t, e)>> \o split_whitespace(Drop(t, e))

RECURSIVE DigitsValue(_, _)
DigitsValue(s, acc) ==
    IF s = <<>> THEN acc
    ELSE DigitsValue(Tail(s),
            10 * acc + (CHOOSE d \in 0..9 :
                          <<"0", "1", "2", "3", "4", "5", "6", "7", "8", "9">>[d + 1] = Head(s)))

\* str::parse::<u32>: -1 for Err (an empty string, a character that is no
\* digit after an optional "+").  A number of ten digits or more is beyond
\* the integers of the model, and is read as Err, which is what u32 does
\* above 4294967295; the model's reports hold no such number.
parse_u32(s) ==
    LET body == IF s # <<>> /\ Head(s) = "+" THEN Tail(s) ELSE s
    IN  IF body = <<>> \/ \E i \in 1..Len(body) : body[i] \notin Digits THEN -1
        ELSE IF Len(body) >= Len(<<1, 2, 3, 4, 5, 6, 7, 8, 9, 10>>) THEN -1
        ELSE DigitsValue(body, 0)

\* u32::saturating_sub
saturating_sub(a, b) == IF a >= b THEN a - b ELSE 0

---------------------------------------------------------------------------
(* Layout Formatter *)

KwDefsrc == <<"(", "d", "e", "f", "s", "r", "c">>
KwDeflayer == <<"(", "d", "e", "f", "l", "a", "y", "e", "r">>
KwDefalias == <<"(", "d", "e", "f", "a", "l", "i", "a", "s">>

is_blank(s) == trim(s) = <<>>

\* items.push(current.clone()) when current holds more than whitespace
PushItem(items, current) == IF is_blank(current) THEN items ELSE Append(items, current)

RECURSIVE DefsrcHeadScan(_, _, _)
\* parse_defsrc_layout, the loop over the characters that follow "(defsrc"
\* on its line; st = [current, depth, items, open], open = in_defsrc;
\* the result has stopped = TRUE when the loop left by break
DefsrcHeadScan(content, i, st) ==
    IF i > Len(content) THEN st
    ELSE LET ch == content[i] IN
         IF ch = "(" THEN
            DefsrcHeadScan(content, i + 1, [st EXCEPT !.depth = @ + 1])
         ELSE IF ch = ")" THEN
            IF st.depth - 1 = 0
            THEN [st EXCEPT !.depth = 0, !.items = PushItem(st.items, st.current),
                            !.open = FALSE]
            ELSE DefsrcHeadScan(content, i + 1, [st EXCEPT !.depth = @ - 1])
         ELSE IF is_whitespace(ch) /\ st.depth = 1 THEN
            DefsrcHeadScan(content, i + 1,
                IF is_blank(st.current) THEN st
                ELSE [st EXCEPT !.items = Append(@, st.current), !.current = <<>>])
         ELSE DefsrcHeadScan(content, i + 1, [st EXCEPT !.current = Append(@, ch)])

RECURSIVE DefsrcDepthScan(_, _, _)
\* parse_defsrc_layout, the first loop over a later line: the parenthesis
\* depth; st = [depth, open]
DefsrcDepthScan(trimmed, i, st) ==
    IF i > Len(trimmed) THEN st
    ELSE LET ch == trimmed[i] IN
         IF ch = "(" THEN DefsrcDepthScan(trimmed, i + 1, [st EXCEPT !.depth = @ + 1])
         ELSE IF ch = ")" THEN
            IF st.depth - 1 = 0 THEN [depth |-> 0, open |-> FALSE]
            ELSE DefsrcDepthScan(trimmed, i + 1, [st EXCEPT !.depth = @ - 1])
         ELSE DefsrcDepthScan(trimmed, i + 1, st)

RECURSIVE DefsrcItemScan(_, _, _)
\* parse_defsrc_layout, the second loop over a later line: its items;
\* st = [current, items, open]
DefsrcItemScan(trimmed, i, st) ==
    IF i > Len(trimmed) THEN st
    ELSE LET ch == trimmed[i] IN
         IF ch = ")" THEN
            [st EXCEPT !.items = PushItem(st.items, st.current), !.open = FALSE]
         ELSE IF is_whitespace(ch) THEN
            DefsrcItemScan(trimmed, i + 1,
                IF is_blank(st.current) THEN st
                ELSE [st EXCEPT !.items = Append(@, st.current), !.current = <<>>])
         ELSE DefsrcItemScan(trimmed, i + 1, [st EXCEPT !.current = Append(@, ch)])

\* parse_defsrc_layout, one iteration of the loop over the lines;
\* st = [in_defsrc, defsrc_items, paren_depth]
DefsrcLine(line, st) ==
    LET trimmed == trim(line) IN
    IF starts_with(trimmed, KwDefsrc) THEN
        LET content == trim(trim_start_matches(trimmed, KwDefsrc)) IN
        IF content # <<>> /\ ~starts_with(content, <<")">>) THEN
            LET r == DefsrcHeadScan(content, 1,
                        [current |-> <<>>, depth |-> 1, items |-> st.defsrc_items,
                         open |-> TRUE])
            IN  [in_defsrc |-> r.open,
                 defsrc_items |-> IF r.open THEN PushItem(r.items, r.current) ELSE r.items,
                 paren_depth |-> r.depth]
        ELSE [in_defsrc |-> TRUE, defsrc_items |-> st.defsrc_items, paren_depth |-> 1]
    ELSE IF st.in_defsrc THEN
        LET d == DefsrcDepthScan(trimmed, 1, [depth |-> st.paren_depth, open |-> TRUE]) IN
        IF d.open /\ d.depth = 1 THEN
            LET r == DefsrcItemScan(trimmed, 1,
                        [current |-> <<>>, items |-> st.defsrc_items, open |-> TRUE])
            IN  [in_defsrc |-> r.open,
                 defsrc_items |-> IF r.open THEN PushItem(r.items, r.current) ELSE r.items,
                 paren_depth |-> d.depth]
        ELSE [in_defsrc |-> d.open, defsrc_items |-> st.defsrc_items,
              paren_depth |-> d.depth]
    ELSE st

RECURSIVE DefsrcLines(_, _, _)
DefsrcLines(ls, i, st) ==
    IF i > Len(ls) THEN st ELSE DefsrcLines(ls, i + 1, DefsrcLine(ls[i], st))

\* parse_defsrc_layout's items, before their widths are taken
defsrc_items(text) ==
    DefsrcLines(lines(text), 1,
        [in_defsrc |-> FALSE, defsrc_items |-> <<>>, paren_depth |-> 0]).defsrc_items

\* Option: None and Some(v)
None == [some |-> FALSE]

Some(v) == [some |-> TRUE, val |-> v]

\* parse_defsrc_layout: the width of every item of the defsrc blocks, None
\* when there is no item
parse_defsrc_layout(text) ==
    LET items == defsrc_items(text)
    IN  IF items = <<>> THEN None
        ELSE Some([k \in 1..Len(items) |-> chars_count(items[k])])

RECURSIVE LayerScan(_, _, _)
\* format_deflayer, the loop over the characters of one line;
\* st = [current, depth, items, open], open = in_deflayer
LayerScan(s, i, st) ==
    IF i > Len(s) THEN st
    ELSE LET ch == s[i] IN
         IF ch = "(" THEN
            LayerScan(s, i + 1, [st EXCEPT !.depth = @ + 1, !.current = Append(@, ch)])
         ELSE IF ch = ")" THEN
            IF st.depth - 1 = 0
            THEN [st EXCEPT !.depth = 0, !.items = PushItem(st.items, st.current),
                            !.open = FALSE]
            ELSE LayerScan(s, i + 1,
                    [st EXCEPT !.depth = @ - 1, !.current = Append(@, ch)])
         ELSE IF is_whitespace(ch) /\ st.depth = 1 THEN
            LayerScan(s, i + 1,
                IF is_blank(st.current) THEN st
                ELSE [st EXCEPT !.items = Append(@, st.current), !.current = <<>>])
         ELSE LayerScan(s, i + 1, [st EXCEPT !.current = Append(@, ch)])

\* format_deflayer, one line scanned from an empty current, the item left
\* at the end of the line pushed while the block is open
LayerLine(s, st) ==
    LET r == LayerScan(s, 1, [st EXCEPT !.current = <<>>])
    IN  IF r.open THEN [r EXCEPT !.items = PushItem(r.items, r.current)] ELSE r

RECURSIVE LayerLines(_, _, _)
\* format_deflayer, the loop over the lines after the first (i is the
\* 0-based index of the next line); the result adds next: the index of
\* the first line after the block
LayerLines(ls, i, st) ==
    IF i < Len(ls) /\ st.open
    THEN LayerLines(ls, i + 1, LayerLine(trim(ls[i + 1]), st))
    ELSE [items |-> st.items, next |-> i]

\* format_deflayer: the layer name on the block's first line
layer_name_of(first_line) ==
    LET after_deflayer == trim(trim_start_matches(trim(first_line), KwDeflayer))
        words == split_whitespace(after_deflayer)
    IN  IF words = <<>> THEN <<>> ELSE words[1]

\* format_deflayer: the items of the block that starts at line start_idx
\* (0-based) and the index of the first line after it
deflayer_items(ls, start_idx) ==
    LET first_line == ls[start_idx + 1]
        after_deflayer == trim(trim_start_matches(trim(first_line), KwDeflayer))
        layer_name == layer_name_of(first_line)
        first_line_rest == trim(trim_start_matches(after_deflayer, layer_name))
        st0 == LayerLine(first_line_rest,
                  [current |-> <<>>, depth |-> 1, items |-> <<>>, open |-> TRUE])
    IN  LayerLines(ls, start_idx + 1, st0)

RECURSIVE LayoutItems_full_pad(_, _, _, _)
\* A layout loop that pads every item by the whole width of its column
LayoutItems_full_pad(items, layout, indent, idx) ==
    IF idx > Len(items) THEN <<>>
    ELSE <<"\n">> \o spaces(indent + 2) \o items[idx] \o spaces(layout[idx])
         \o LayoutItems_full_pad(items, layout, indent, idx + 1)

RECURSIVE LayoutItems(_, _, _, _)
\* format_deflayer, the loop that applies the layout: every item on a line
\* of its own, padded to the width of its column
LayoutItems(items, layout, indent, idx) ==
    IF idx > Len(items) THEN <<>>
    ELSE LET item == items[idx]
             item_width == chars_count(item)
             target_width == layout[idx]
         IN  <<"\n">> \o spaces(indent + 2) \o item
             \o (IF item_width < target_width THEN spaces(target_width - item_width)
                 ELSE <<>>)
             \o LayoutItems(items, layout, indent, idx + 1)

\* format_deflayer: (the text of the block, the index of the line after it)
format_deflayer(ls, start_idx, layout) ==
    LET first_line == ls[start_idx + 1]
        indent == len(first_line) - len(trim_start(first_line))
        p == deflayer_items(ls, start_idx)
    IN  IF Len(p.items) # Len(layout)
        THEN <<join(SubSeq(ls, start_idx + 1, p.next), <<"\n">>), p.next>>
        ELSE <<spaces(indent) \o KwDeflayer \o <<" ">> \o layer_name_of(first_line)
                 \o LayoutItems(p.items, layout, indent, 1)
                 \o <<"\n">> \o spaces(indent) \o <<")">>,
               p.next>>

RECURSIVE ApplyLines(_, _, _)
\* apply_defsrc_layout_to_deflayers, the loop over the lines (i 0-based):
\* the pieces of the result
ApplyLines(ls, i, layout) ==
    IF i >= Len(ls) THEN <<>>
    ELSE IF starts_with(trim(ls[i + 1]), KwDeflayer)
         THEN LET f == format_deflayer(ls, i, layout)
              IN  <<f[1]>> \o ApplyLines(ls, f[2], layout)
         ELSE <<ls[i + 1]>> \o ApplyLines(ls, i + 1, layout)

apply_defsrc_layout_to_deflayers(text, layout) ==
    join(ApplyLines(lines(text), 0, layout), <<"\n">>)

format_document(text) ==
    LET defsrc_layout == parse_defsrc_layout(text)
    IN  IF ~defsrc_layout.some THEN text
        ELSE apply_defsrc_layout_to_deflayers(text, defsrc_layout.val)

---------------------------------------------------------------------------
(* Diagnostic Translator *)

\* The glyphs of the validator's rendered gutter
StartMarker == <<"U+256D", "U+2500", "U+25B6">>
EndMarker == <<"U+251C", "U+2500", "U+25B6">>
CloseMarker == <<"U+2570", "U+2500", "U+2500">>
GutterBar == "U+2502"
KbdMarker == <<".", "k", "b", "d", ":">>
HelpMarker == <<"h", "e", "l", "p", ":">>

\* extract_line_info: line.split(bar).next(), trimmed and parsed: the
\* number in the gutter of a report line, -1 when it holds none
gutter_number(line) == parse_u32(trim(SplitOn(line, GutterBar)[1]))

RECURSIVE MarkerScan(_, _, _)
\* extract_line_info, the loop over the lines of the report;
\* st = [start_line, end_line], each an Option
MarkerScan(ls, i, st) ==
    IF i > Len(ls) THEN st
    ELSE LET line == ls[i]
             num == gutter_number(line)
             st1 == IF (contains(line, StartMarker)
                          \/ contains(line, <<GutterBar, " ">> \o StartMarker))
                       /\ ~st.start_line.some /\ num >= 0
                    THEN [st EXCEPT !.start_line = Some(saturating_sub(num, 1))]
                    ELSE st
             st2 == IF (contains(line, EndMarker) \/ contains(line, CloseMarker))
                       /\ num >= 0
                    THEN [st1 EXCEPT !.end_line = Some(saturating_sub(num, 1))]
                    ELSE st1
         IN  MarkerScan(ls, i + 1, st2)

\* extract_line_info, the fallback: the line:col that follows the first
\* ".kbd:" up to the next "]"; None when there is none or it does not parse
locator_info(error_msg) ==
    LET start == FindIdx(error_msg, KbdMarker) IN
    IF start < 0 THEN None
    ELSE LET after_kbd == Drop(error_msg, start + Len(KbdMarker))
             end == FindCharIdx(after_kbd, {"]"})
         IN  IF end < 0 THEN None
             ELSE LET parts == SplitOn(Take(after_kbd, end), ":") IN
                  IF Len(parts) >= 2 /\ parse_u32(parts[1]) >= 0 /\ parse_u32(parts[2]) >= 0
                  THEN Some(<<saturating_sub(parse_u32(parts[1]), 1),
                              saturating_sub(parse_u32(parts[2]), 1),
                              saturating_sub(parse_u32(parts[1]), 1)>>)
                  ELSE None

\* An extraction that tries the bracketed locator before the markers
extract_line_info_locator_first(error_msg) ==
    LET m == MarkerScan(lines(error_msg), 1, [start_line |-> None, end_line |-> None])
        loc == locator_info(error_msg)
    IN  IF loc.some THEN loc.val
        ELSE IF m.start_line.some /\ m.end_line.some
        THEN <<m.start_line.val, 0, m.end_line.val>>
        ELSE <<0, 0, 0>>

\* extract_line_info: (start_line, start_col, end_line)
extract_line_info(error_msg) ==
    LET m == MarkerScan(lines(error_msg), 1, [start_line |-> None, end_line |-> None])
        loc == locator_info(error_msg)
    IN  IF m.start_line.some /\ m.end_line.some
        THEN <<m.start_line.val, 0, m.end_line.val>>
        ELSE IF loc.some THEN loc.val
        ELSE <<0, 0, 0>>

\* validate_document: the end column, from the live text
end_col_of(text, info) ==
    LET start_line == info[1]
        start_col == info[2]
        end_line == info[3]
        ls == lines(text)
    IN  IF start_line = end_line
        THEN Max(IF start_line < Len(ls) THEN len(ls[start_line + 1]) ELSE start_col + 1,
                 start_col + 1)
        ELSE IF end_line < Len(ls) THEN len(ls[end_line + 1]) ELSE 0

Position(l, c) == [line |-> l, character |-> c]

Range(s, e) == [start |-> s, end |-> e]

\* A range taken as computed, without the check
final_range_unchecked(info, end_col) ==
    Range(Position(info[1], info[2]), Position(info[3], end_col))

\* validate_document: "Ensure the range is valid"
final_range(info, end_col) ==
    LET start_line == info[1]
        start_col == info[2]
        end_line == info[3]
    IN  IF start_line > end_line \/ (start_line = end_line /\ start_col >= end_col)
        THEN Range(Position(start_line, start_col), Position(start_line, start_col + 1))
        ELSE Range(Position(start_line, start_col), Position(end_line, end_col))

ParseErrorMessage == <<"P", "a", "r", "s", "e", " ", "e", "r", "r", "o", "r">>

\* str::split on a pattern, the piece of index 1: what follows the first
\* occurrence up to the second
AfterFirst(s, p) ==
    LET rest == Drop(s, FindIdx(s, p) + Len(p))
        nxt == FindIdx(rest, p)
    IN  IF nxt < 0 THEN rest ELSE Take(rest, nxt)

\* validate_document: the text after "help:" on the first line that holds it
display_message(error_msg) ==
    LET ls == lines(error_msg)
        hits == {i \in 1..Len(ls) : contains(ls[i], HelpMarker)}
    IN  IF hits = {} THEN ParseErrorMessage
        ELSE trim(AfterFirst(ls[CHOOSE i \in hits : \A j \in hits : i <= j], HelpMarker))

Diagnostic(r, msg) ==
    [range |-> r, severity |-> "ERROR", source |-> "kanata-lsp", message |-> msg]

\* The Err(error_msg) arm, were it to report the start and the end of the
\* range as two diagnostics
error_diagnostics_both_ends(error_msg, text) ==
    LET info == extract_line_info(error_msg)
        r == final_range(info, end_col_of(text, info))
    IN  <<Diagnostic(Range(r.start, r.start), display_message(error_msg)),
          Diagnostic(Range(r.end, r.end), display_message(error_msg))>>

\* validate_document, the Err(error_msg) arm: the one diagnostic of a
\* validator failure
error_diagnostics(error_msg, text) ==
    LET info == extract_line_info(error_msg)
    IN  <<Diagnostic(final_range(info, end_col_of(text, info)),
                     display_message(error_msg))>>

WriteFailedMessage == <<"F", "a", "i", "l", "e", "d", " ", "t", "o", " ", "w", "r", "i",
                        "t", "e", " ", "t", "e", "m", "p", " ", "f", "i", "l", "e">>

\* The arm of a failed std::fs::write, were its range widened to one
\* character as the ranges of validator failures are
write_failed_diagnostics_one_character ==
    <<Diagnostic(Range(Position(0, 0), Position(0, 1)), WriteFailedMessage)>>

\* validate_document, the arm of a failed std::fs::write
write_failed_diagnostics ==
    <<Diagnostic(Range(Position(0, 0), Position(0, 0)), WriteFailedMessage)>>

---------------------------------------------------------------------------
(* Position Resolver *)

\* The identifier characters of get_word_at_position, to the right
is_word_char(c) == is_alphanumeric(c) \/ c = "_" \/ c = "-"

\* An index that stands for a panic (unwrap of None, a slice off a
\* character boundary)
Panicked == -1

RECURSIVE WordStart(_, _)
\* get_word_at_position, "Find the start of the word": start is a byte
\* offset, line.chars().nth(start - 1) a character index
WordStart(line, start) ==
    IF start > 0 THEN
        IF start - 1 >= Len(line) THEN Panicked
        ELSE IF is_word_char(line[start]) \/ line[start] = "@"
             THEN WordStart(line, start - 1)
             ELSE start
    ELSE start

RECURSIVE WordEnd(_, _)
\* get_word_at_position, "Find the end of the word"
WordEnd(line, end) ==
    IF end < len(line) THEN
        IF end >= Len(line) THEN Panicked
        ELSE IF is_word_char(line[end + 1]) THEN WordEnd(line, end + 1)
             ELSE end
    ELSE end

\* A String result, or a panic
Word(w) == [panic |-> FALSE, word |-> w]

WordPanic == [panic |-> TRUE, word |-> <<>>]

\* &line[a..b], a and b byte offsets
byte_slice(line, a, b) ==
    IF a <= b /\ is_char_boundary(line, a) /\ is_char_boundary(line, b)
    THEN Word(SubSeq(line, char_index(line, a) + 1, char_index(line, b)))
    ELSE WordPanic

get_word_at_position(text, position) ==
    LET ls == lines(text) IN
    IF position.line >= Len(ls) THEN Word(<<>>)
    ELSE LET line == ls[position.line + 1]
             char_pos == position.character
         IN  IF char_pos >= len(line) THEN Word(<<>>)
             ELSE LET start == WordStart(line, char_pos)
                      end == WordEnd(line, char_pos)
                  IN  IF start = Panicked \/ end = Panicked THEN WordPanic
                      ELSE byte_slice(line, start, end)

---------------------------------------------------------------------------
(* Symbol Extractor *)

\* HashMap::insert
MapPut(m, k, v) == [x \in DOMAIN m \cup {k} |-> IF x = k THEN v ELSE m[x]]

EmptyMap == [x \in {} |-> {}]

Definition(uri, r) == [uri |-> uri, range |-> r]

NameStop == Whitespace \cup {"(", ")"}

\* the end of the token a string starts with: find(whitespace or
\* parenthesis), or the length of the string
name_end_of(s) ==
    LET e == FindCharIdx(s, NameStop) IN IF e < 0 THEN len(s) ELSE byte_offset(s, e)

\* the token a string starts with: &s[..name_end]
first_token(s) ==
    LET e == FindCharIdx(s, NameStop) IN IF e < 0 THEN s ELSE Take(s, e)

RECURSIVE NextLineName_at_column_0(_, _, _)
\* The loop over the lines after the opening form, were the name's range
\* to start at the beginning of its line whatever the indentation
NextLineName_at_column_0(uri, ls, i) ==
    IF i >= Len(ls) THEN None
    ELSE LET next_trimmed == trim_start(ls[i + 1])
             name == first_token(next_trimmed)
         IN  IF next_trimmed = <<>> \/ starts_with(next_trimmed, <<";">>)
             THEN NextLineName_at_column_0(uri, ls, i + 1)
             ELSE IF starts_with(next_trimmed, <<")">>) THEN None
             ELSE IF name # <<>>
                  THEN Some([name |-> name,
                             def |-> Definition(uri,
                                 Range(Position(i, 0), Position(i, len(name))))])
                  ELSE NextLineName_at_column_0(uri, ls, i + 1)

RECURSIVE NextLineName(_, _, _)
\* extract_symbols, "Name might be on the next line(s)": the loop over the
\* lines after the opening form (i is the 0-based index of the next line
\* to look at); the entry to insert, or None
NextLineName(uri, ls, i) ==
    IF i >= Len(ls) THEN None
    ELSE LET next_line == ls[i + 1]
             next_trimmed == trim_start(next_line)
             next_indent == len(next_line) - len(next_trimmed)
             name == first_token(next_trimmed)
         IN  IF next_trimmed = <<>> \/ starts_with(next_trimmed, <<";">>)
             THEN NextLineName(uri, ls, i + 1)
             ELSE IF starts_with(next_trimmed, <<")">>) THEN None
             ELSE IF name # <<>>
                  THEN Some([name |-> name,
                             def |-> Definition(uri,
                                 Range(Position(i, next_indent),
                                       Position(i, next_indent + len(name))))])
                  ELSE NextLineName(uri, ls, i + 1)

\* extract_symbols, the name of the declaration that opens on line line_idx
\* (0-based) with keyword kw: the entry to insert, or None
declared_name(uri, ls, line_idx, kw) ==
    LET line == ls[line_idx + 1]
        trimmed == trim_start(line)
        indent == len(line) - len(trimmed)
        rest == trim_start_matches(trimmed, kw)
        after_keyword == trim_start(rest)
        name == first_token(after_keyword)
        name_col == indent + len(kw) + (len(rest) - len(after_keyword))
    IN  IF after_keyword # <<>> /\ ~starts_with(after_keyword, <<"(">>)
           /\ ~starts_with(after_keyword, <<")">>)
        THEN Some([name |-> name,
                   def |-> Definition(uri,
                       Range(Position(line_idx, name_col),
                             Position(line_idx, name_col + len(name))))])
        ELSE NextLineName(uri, ls, line_idx + 1)

RECURSIVE SymbolLines(_, _, _, _)
\* extract_symbols, the loop over the lines; st = [aliases, layers]
SymbolLines(uri, ls, line_idx, st) ==
    IF line_idx >= Len(ls) THEN st
    ELSE LET trimmed == trim_start(ls[line_idx + 1]) IN
         IF starts_with(trimmed, KwDefalias) THEN
            LET d == declared_name(uri, ls, line_idx, KwDefalias) IN
            SymbolLines(uri, ls, line_idx + 1,
                IF d.some THEN [st EXCEPT !.aliases = MapPut(@, d.val.name, d.val.def)]
                ELSE st)
         ELSE IF starts_with(trimmed, KwDeflayer) THEN
            LET d == declared_name(uri, ls, line_idx, KwDeflayer) IN
            SymbolLines(uri, ls, line_idx + 1,
                IF d.some THEN [st EXCEPT !.layers = MapPut(@, d.val.name, d.val.def)]
                ELSE st)
         ELSE SymbolLines(uri, ls, line_idx + 1, st)

\* extract_symbols: the DocumentSymbols of a text
extract_symbols(uri, text) ==
    SymbolLines(uri, lines(text), 0, [aliases |-> EmptyMap, layers |-> EmptyMap])

---------------------------------------------------------------------------
(* Request handlers: definition, references, rename, formatting, diagnostic *)

\* The outcomes of a request: Ok(None), Ok(Some(v)), and a panic of the handler
NoResult == [panic |-> FALSE, some |-> FALSE, val |-> <<>>]

Result(v) == [panic |-> FALSE, some |-> TRUE, val |-> v]

Abort == [panic |-> TRUE, some |-> FALSE, val |-> <<>>]

Location(uri, r) == [uri |-> uri, range |-> r]

\* goto_definition; cache is the symbols cache, disk the file system
goto_definition(cache, disk, uri, position) ==
    IF ~disk[uri].some THEN NoResult
    ELSE LET w == get_word_at_position(disk[uri].val, position) IN
         IF w.panic THEN Abort
         ELSE IF w.word = <<>> THEN NoResult
         ELSE IF starts_with(w.word, <<"@">>) THEN
            LET alias_name == Tail(w.word) IN
            IF uri \in DOMAIN cache /\ alias_name \in DOMAIN cache[uri].aliases
            THEN Result(Location(cache[uri].aliases[alias_name].uri,
                                 cache[uri].aliases[alias_name].range))
            ELSE NoResult
         ELSE
            IF uri \in DOMAIN cache /\ w.word \in DOMAIN cache[uri].layers
            THEN Result(Location(cache[uri].layers[w.word].uri,
                                 cache[uri].layers[w.word].range))
            ELSE NoResult

RECURSIVE AliasMatches(_, _, _, _, _)
\* references, "Look for @word references": the loop over the matches of
\* search_pattern in one line, from the character of index start on
AliasMatches(doc_uri, line_idx, line, search_pattern, start) ==
    LET pos == FindIdx(Drop(line, start), search_pattern) IN
    IF pos < 0 THEN <<>>
    ELSE LET actual_pos == byte_offset(line, start + pos) IN
         <<Location(doc_uri,
                Range(Position(line_idx, actual_pos),
                      Position(line_idx, actual_pos + len(search_pattern))))>>
         \o AliasMatches(doc_uri, line_idx, line, search_pattern, start + pos + 1)

\* references, "Check if it's a word boundary": the test at the character
\* of index k of the line; "panic" when chars().nth(char_idx - 1) is None
layer_match(line, k, search_word) ==
    LET char_idx == byte_offset(line, k)
        after_idx == char_idx + len(search_word)
    IN  IF ~starts_with(Drop(line, k), search_word) THEN "no"
        ELSE IF char_idx # 0 /\ char_idx - 1 >= Len(line) THEN "panic"
        ELSE LET before_ok == char_idx = 0 \/ ~is_alphanumeric(line[char_idx])
                 after_ok == after_idx >= len(line)
                             \/ ~(after_idx < Len(line)
                                  /\ is_alphanumeric(line[after_idx + 1]))
             IN  IF before_ok /\ after_ok THEN "yes" ELSE "no"

\* A list of locations, or a panic
Found(locs) == [panic |-> FALSE, locs |-> locs]

FoundPanic == [panic |-> TRUE, locs |-> <<>>]

RECURSIVE LayerMatches(_, _, _, _, _)
\* references, "Look for layer name references": the loop over
\* line.char_indices(), from the character of index k on
LayerMatches(doc_uri, line_idx, line, search_word, k) ==
    IF k >= Len(line) THEN Found(<<>>)
    ELSE LET m == layer_match(line, k, search_word)
             char_idx == byte_offset(line, k)
         IN  IF m = "panic" THEN FoundPanic
             ELSE LET rest == LayerMatches(doc_uri, line_idx, line, search_word, k + 1) IN
                  IF rest.panic THEN FoundPanic
                  ELSE IF m = "yes"
                       THEN Found(<<Location(doc_uri,
                                      Range(Position(line_idx, char_idx),
                                            Position(line_idx, char_idx + len(search_word))))>>
                                  \o rest.locs)
                       ELSE rest

\* references: the matches in one line
line_matches(doc_uri, line_idx, line, search_word, is_alias) ==
    IF is_alias
    THEN Found(AliasMatches(doc_uri, line_idx, line, <<"@">> \o search_word, 0))
    ELSE LayerMatches(doc_uri, line_idx, line, search_word, 0)

RECURSIVE DocMatches(_, _, _, _, _)
\* references, the loop over the lines of one document
DocMatches(doc_uri, ls, line_idx, search_word, is_alias) ==
    IF line_idx >= Len(ls) THEN Found(<<>>)
    ELSE LET here == line_matches(doc_uri, line_idx, ls[line_idx + 1], search_word, is_alias)
         IN  IF here.panic THEN FoundPanic
             ELSE LET rest == DocMatches(doc_uri, ls, line_idx + 1, search_word, is_alias)
                  IN  IF rest.panic THEN FoundPanic ELSE Found(here.locs \o rest.locs)

RECURSIVE AllMatches(_, _, _, _, _)
\* references, "Search through all documents in the cache": order is the
\* order in which the HashMap yields its documents
AllMatches(disk, order, i, search_word, is_alias) ==
    IF i > Len(order) THEN Found(<<>>)
    ELSE LET doc_uri == order[i]
             here == IF disk[doc_uri].some
                     THEN DocMatches(doc_uri, lines(disk[doc_uri].val), 0,
                                     search_word, is_alias)
                     ELSE Found(<<>>)
         IN  IF here.panic THEN FoundPanic
             ELSE LET rest == AllMatches(disk, order, i + 1, search_word, is_alias)
                  IN  IF rest.panic THEN FoundPanic ELSE Found(here.locs \o rest.locs)

\* references; order lists the documents of the symbols cache
references(disk, order, uri, position) ==
    IF ~disk[uri].some THEN NoResult
    ELSE LET w == get_word_at_position(disk[uri].val, position) IN
         IF w.panic THEN Abort
         ELSE IF w.word = <<>> THEN NoResult
         ELSE LET is_alias == starts_with(w.word, <<"@">>)
                  search_word == IF is_alias THEN Tail(w.word) ELSE w.word
                  found == AllMatches(disk, order, 1, search_word, is_alias)
              IN  IF found.panic THEN Abort
                  ELSE IF found.locs = <<>> THEN NoResult
                  ELSE Result(found.locs)

TextEdit(r, new_text) == [range |-> r, new_text |-> new_text]

RECURSIVE EditsOf(_, _, _)
\* rename, "Create text edits for all references": the edits pushed under
\* one document, in the order of the locations
EditsOf(locations, doc_uri, new_text) ==
    IF locations = <<>> THEN <<>>
    ELSE (IF Head(locations).uri = doc_uri
          THEN <<TextEdit(Head(locations).range, new_text)>> ELSE <<>>)
         \o EditsOf(Tail(locations), doc_uri, new_text)

\* A rename that forgets the sigil of an alias reference
WorkspaceEdit_no_sigil(word, refs, new_name) ==
    IF refs.panic THEN Abort
    ELSE IF ~refs.some THEN NoResult
    ELSE Result([d \in {refs.val[i].uri : i \in 1..Len(refs.val)} |->
                    EditsOf(refs.val, d, new_name)])

\* rename, from "let is_alias" on: the WorkspaceEdit's changes, document ->
\* edits, of the locations references returned
WorkspaceEdit(word, refs, new_name) ==
    IF refs.panic THEN Abort
    ELSE IF ~refs.some THEN NoResult
    ELSE Result([d \in {refs.val[i].uri : i \in 1..Len(refs.val)} |->
                    EditsOf(refs.val, d,
                            IF starts_with(word, <<"@">>)
                            THEN <<"@">> \o new_name ELSE new_name)])

\* rename, from the word under the cursor on
RenameWord(w, refs, new_name) ==
    IF w.panic THEN Abort
    ELSE IF w.word = <<>> THEN NoResult
    ELSE WorkspaceEdit(w.word, refs, new_name)

\* rename
rename(disk, order, uri, position, new_name) ==
    IF ~disk[uri].some THEN NoResult
    ELSE RenameWord(get_word_at_position(disk[uri].val, position),
                    references(disk, order, uri, position), new_name)

\* formatting: the one edit that replaces the document, None when the
\* formatted text is the text
formatting(disk, uri) ==
    IF ~disk[uri].some THEN NoResult
    ELSE LET text == disk[uri].val
             formatted == format_document(text)
             ls == lines(text)
             line_count == Len(ls)
             last_line_len == IF ls = <<>> THEN 0 ELSE len(ls[Len(ls)])
         IN  IF formatted = text THEN NoResult
             ELSE Result(<<TextEdit(Range(Position(0, 0),
                                          Position(saturating_sub(line_count, 1),
                                                   last_line_len)),
                                    formatted)>>)

\* diagnostic: the pull request's report items
diagnostic(diags, uri) == IF uri \in DOMAIN diags THEN diags[uri] ELSE <<>>

---------------------------------------------------------------------------
(* The documents, reports and requests of the model *)

Urls == {"u1", "u2"}

\* (defalias foo x) / (deflayer nav / @foo @foo)
TextA ==
    <<"(", "d", "e", "f", "a", "l", "i", "a", "s", " ", "f", "o", "o", " ",
       "x", ")", "\n", "(", "d", "e", "f", "l", "a", "y", "e", "r", " ",
       "n", "a", "v", "\n", "@", "f", "o", "o", " ", "@", "f", "o", "o",
       ")">>

\* (deflayer navigate / @foo nav nav-up)
TextB ==
    <<"(", "d", "e", "f", "l", "a", "y", "e", "r", " ", "n", "a", "v", "i",
       "g", "a", "t", "e", "\n", "@", "f", "o", "o", " ", "n", "a", "v",
       " ", "n", "a", "v", "-", "u", "p", ")">>

\* (defalias /   foo2 y) / @foo2 @foo
TextC ==
    <<"(", "d", "e", "f", "a", "l", "i", "a", "s", "\n", " ", " ", "f",
       "o", "o", "2", " ", "y", ")", "\n", "@", "f", "o", "o", "2", " ",
       "@", "f", "o", "o">>

\* U+00E9, space, nav: the first character takes two bytes
TextD ==
    <<"U+00E9", " ", "n", "a", "v">>

\* a-a a-a-a
TextE ==
    <<"a", "-", "a", " ", "a", "-", "a", "-", "a">>

Texts == {TextA, TextB, TextC, TextD, TextE}

\* The text each document has on disk before the editor opens it
InitialFile(u) == IF u = "u1" THEN TextA ELSE TextB

\* a report with a locator: Error /   +-[c.kbd:2:1] / help: fix
ReportLocator ==
    <<"E", "r", "r", "o", "r", "\n", " ", " ", "U+256D", "U+2500", "[",
       "c", ".", "k", "b", "d", ":", "2", ":", "1", "]", "\n", "h", "e",
       "l", "p", ":", " ", "f", "i", "x">>

\* The reports a failing validator returns to the server
ServerReports == {ReportLocator}

\* The new name of a rename request
NewName == <<"b">>

\* The largest line and column of a request's position
MaxLine == 2
MaxCol == 7

Positions == {Position(l, c) : l \in 0..MaxLine, c \in 0..MaxCol}

\* The number of open and change notifications of a run
MaxCalls == 2

\* (defsrc a bb c)
FSrc ==
    <<"(", "d", "e", "f", "s", "r", "c", " ", "a", " ", "b", "b", " ", "c",
       ")">>

\* (deflayer nav x y z)
FNav ==
    <<"(", "d", "e", "f", "l", "a", "y", "e", "r", " ", "n", "a", "v", " ",
       "x", " ", "y", " ", "z", ")">>

\*   (deflayer s (t 1) y zz)
FSym ==
    <<" ", " ", "(", "d", "e", "f", "l", "a", "y", "e", "r", " ", "s", " ",
       "(", "t", " ", "1", ")", " ", "y", " ", "z", "z", ")">>

\* (deflayer m w x y z)
FFour ==
    <<"(", "d", "e", "f", "l", "a", "y", "e", "r", " ", "m", " ", "w", " ",
       "x", " ", "y", " ", "z", ")">>

\* (deflayer n p q (defsrc r))
FNested ==
    <<"(", "d", "e", "f", "l", "a", "y", "e", "r", " ", "n", " ", "p", " ",
       "q", " ", "(", "d", "e", "f", "s", "r", "c", " ", "r", ")", ")">>

\* (deflayer base
FBase ==
    <<"(", "d", "e", "f", "l", "a", "y", "e", "r", " ", "b", "a", "s", "e">>

\*   x yy z)
FItems ==
    <<" ", " ", "x", " ", "y", "y", " ", "z", ")">>

\* )
FClose ==
    <<")">>

\* ;; note
FNote ==
    <<";", ";", " ", "n", "o", "t", "e">>

\* (deflayer t x y z) ;; c
FTrail ==
    <<"(", "d", "e", "f", "l", "a", "y", "e", "r", " ", "t", " ", "x", " ",
       "y", " ", "z", ")", " ", ";", ";", " ", "c">>

FormatLines == {FSrc, FNav, FSym, FFour, FNested, FBase, FItems, FClose, FNote, FTrail}

\* The largest number of lines of a text handed to the formatter
MaxFormatLines == 3

LineSeqs(L, n) == UNION {[1..k -> L] : k \in 1..n}

\* The texts handed to the formatter: lines joined by line feeds, with and
\* without a final line feed
FormatTexts ==
    {join(ls, <<"\n">>) \o e : ls \in LineSeqs(FormatLines, MaxFormatLines),
                                e \in {<<>>, <<"\n">>}}

\*   +-[c.kbd:78:1]
RHeader ==
    <<" ", " ", "U+256D", "U+2500", "[", "c", ".", "k", "b", "d", ":", "7",
       "8", ":", "1", "]">>

\* 79 | +-> (
RStart79 ==
    <<"7", "9", " ", "U+2502", " ", "U+256D", "U+2500", "U+25B6", " ", "(">>

\* 85 | +-> )
REnd85 ==
    <<"8", "5", " ", "U+2502", " ", "U+251C", "U+2500", "U+25B6", " ", ")">>

\*    . +-- help: fix
RHelp ==
    <<" ", " ", " ", ".", " ", "U+2570", "U+2500", "U+2500", " ", "h", "e",
       "l", "p", ":", " ", "f", "i", "x">>

\*  2 | +-> x
RStart2 ==
    <<" ", "2", " ", "U+2502", " ", "U+256D", "U+2500", "U+25B6", " ", "x">>

\*  1 | +-> y
REnd1 ==
    <<" ", "1", " ", "U+2502", " ", "U+251C", "U+2500", "U+25B6", " ", "y">>

\*  2 | +-> z
REnd2 ==
    <<" ", "2", " ", "U+2502", " ", "U+251C", "U+2500", "U+25B6", " ", "z">>

\* [c.kbd:2:3]
RLoc23 ==
    <<"[", "c", ".", "k", "b", "d", ":", "2", ":", "3", "]">>

\* [c.kbd:0:0]
RLoc00 ==
    <<"[", "c", ".", "k", "b", "d", ":", "0", ":", "0", "]">>

\* Error
RPlain ==
    <<"E", "r", "r", "o", "r">>

ReportLines == {RHeader, RStart79, REnd85, RHelp, RStart2, REnd1, REnd2, RLoc23, RLoc00, RPlain}

\* The largest number of lines of a report
MaxReportLines == 3

Reports == {join(ls, <<"\n">>) : ls \in LineSeqs(ReportLines, MaxReportLines)}

LiveShort ==
    <<"a", "b">>

LiveLines ==
    <<"a", "b", "c", "\n", "\n", "d", "e", "\n">>

\* The live texts a report is translated against
LiveTexts == {<<>>, LiveShort, LiveLines}

\* The lines of the texts handed to the symbol extractor

\* (defalias
EOpenAlias ==
    <<"(", "d", "e", "f", "a", "l", "i", "a", "s">>

\*  (deflayer
EOpenLayer ==
    <<" ", "(", "d", "e", "f", "l", "a", "y", "e", "r">>

\* ;; n
ENote ==
    <<";", ";", " ", "n">>

\* a blank line
EBlank == <<>>

\*   foo x)
EName ==
    <<" ", " ", "f", "o", "o", " ", "x", ")">>

\* )
EClose ==
    <<")">>

\* (a b)
EForm ==
    <<"(", "a", " ", "b", ")">>

\* (defalias foo y)
ESame ==
    <<"(", "d", "e", "f", "a", "l", "i", "a", "s", " ", "f", "o", "o", " ",
       "y", ")">>

ExtractLines == {EOpenAlias, EOpenLayer, ENote, EBlank, EName, EClose, EForm, ESame}

\* The largest number of lines of a text handed to the symbol extractor
MaxExtractLines == 3

ExtractTexts == {join(ls, <<"\n">>) : ls \in LineSeqs(ExtractLines, MaxExtractLines)}

\* The texts handed to the position resolver

\* foo bar
WPlain ==
    <<"f", "o", "o", " ", "b", "a", "r">>

\* @a-b_c (x / (blank) / y
WSigil ==
    <<"@", "a", "-", "b", "_", "c", " ", "(", "x", "\n", "\n", "y">>

\* U+00E9 a, space, b: the first character takes two bytes
WAccent ==
    <<"U+00E9", "a", " ", "b">>

\* x U+4E2D: the second character takes three bytes
WWide ==
    <<"x", "U+4E2D">>

WordTexts == {<<>>, WPlain, WSigil, WAccent, WWide}

\* The largest line and character of a cursor handed to the position resolver
MaxWordLine == 2
MaxWordCol == 7

WordPositions == {Position(l, c) : l \in 0..MaxWordLine, c \in 0..MaxWordCol}

---------------------------------------------------------------------------
(* The server: state and actions *)

\* No response is on its way to the client
Idle == [request |-> "none"]

\* What the write and parse step of validate_document can meet: the
\* validator returns Ok, the validator returns Err(report), the write of
\* the scratch file fails
Outcome(kind, report) == [kind |-> kind, report |-> report]

Outcomes ==
    {Outcome("ok", <<>>), Outcome("write_failed", <<>>)}
    \cup {Outcome("err", r) : r \in ServerReports}

\* A validate_document whose Ok arm falls through to the report translation
diagnostics_of_ok_reported(outcome, text) ==
    IF outcome.kind = "write_failed" THEN write_failed_diagnostics
    ELSE error_diagnostics(outcome.report, text)

\* validate_document: the diagnostics of an outcome
diagnostics_of(outcome, text) ==
    IF outcome.kind = "ok" THEN <<>>
    ELSE IF outcome.kind = "err" THEN error_diagnostics(outcome.report, text)
    ELSE write_failed_diagnostics

\* std::fs::write(&temp_file, text): the scratch file after the step
scratch_after(old, outcome, text) ==
    IF outcome.kind = "write_failed" THEN old ELSE Some(text)

\* A validate_document invocation: symbols is its local of that name,
\* extracted before the first await; pc is the step it takes next; outcome
\* is what its write and parse step met; read is the text the validator
\* read from the scratch file; published counts its notifications
NewCall(uri, text) ==
    [uri |-> uri, text |-> text, symbols |-> extract_symbols(uri, text),
     pc |-> "index", outcome |-> "pending",
     read |-> None, diagnostics |-> <<>>, published |-> 0]

InitServer ==
    /\ symbols_cache = EmptyMap
    /\ diagnostics_cache = EmptyMap
    /\ client = [u \in Urls |-> None]
    /\ files = [u \in Urls |-> Some(InitialFile(u))]
    /\ buffers = [u \in Urls |-> None]
    /\ scratch = None
    /\ received = 0
    /\ calls = <<>>
    /\ reply = Idle

InitFormatOff == ftext = <<>> /\ fout = <<>> /\ fout2 = <<>> /\ fpc = "off"

InitTranslateOff ==
    treport = <<>> /\ ttext = <<>> /\ tinfo = <<>> /\ tdiag = <<>> /\ tpc = "off"

InitExtractOff == etext = <<>> /\ esyms = <<>> /\ epc = "off"

InitWordOff == wtext = <<>> /\ wposition = <<>> /\ wword = <<>> /\ wpc = "off"

Init ==
    InitServer /\ InitFormatOff /\ InitTranslateOff /\ InitExtractOff /\ InitWordOff

\* validate_document, were it to add the names of the text to the names
\* the document's entry already holds
Validate_adding_names(uri, text, outcome) ==
    /\ symbols_cache' = MapPut(symbols_cache, uri,
          LET new == extract_symbols(uri, text)
              old == IF uri \in DOMAIN symbols_cache THEN symbols_cache[uri]
                     ELSE [aliases |-> EmptyMap, layers |-> EmptyMap]
          IN  [aliases |-> [n \in DOMAIN old.aliases \cup DOMAIN new.aliases |->
                               IF n \in DOMAIN new.aliases THEN new.aliases[n]
                               ELSE old.aliases[n]],
               layers |-> [n \in DOMAIN old.layers \cup DOMAIN new.layers |->
                              IF n \in DOMAIN new.layers THEN new.layers[n]
                              ELSE old.layers[n]]])
    /\ scratch' = scratch_after(scratch, outcome, text)
    /\ diagnostics_cache' = MapPut(diagnostics_cache, uri, diagnostics_of(outcome, text))
    /\ client' = [client EXCEPT ![uri] = Some(diagnostics_cache'[uri])]

\* validate_document(uri, text), run from its first line to its last
Validate(uri, text, outcome) ==
    /\ symbols_cache' = MapPut(symbols_cache, uri, extract_symbols(uri, text))
    /\ scratch' = scratch_after(scratch, outcome, text)
    /\ diagnostics_cache' = MapPut(diagnostics_cache, uri, diagnostics_of(outcome, text))
    /\ client' = [client EXCEPT ![uri] = Some(diagnostics_cache'[uri])]

\* did_open: the editor opens the document with the text of its file
DidOpen(u, outcome) ==
    /\ reply = Idle
    /\ received < MaxCalls
    /\ ~buffers[u].some
    /\ files[u].some
    /\ buffers' = [buffers EXCEPT ![u] = files[u]]
    /\ Validate(u, files[u].val, outcome)
    /\ received' = received + 1
    /\ UNCHANGED <<files, calls, reply, formatVars, translateVars, extractVars, wordVars>>

\* The content_changes of a change notification: the server asks for full
\* synchronisation (main.rs 37-38), so a change carries the whole new
\* text; the list of changes may be empty
ContentChanges == {<<>>} \cup {<<t>> : t \in Texts}

\* did_change: content_changes.first(), if there is one, carries the full
\* new text; without one nothing is done
DidChange(u, content_changes, outcome) ==
    /\ reply = Idle
    /\ received < MaxCalls
    /\ buffers[u].some
    /\ IF content_changes # <<>>
       THEN /\ buffers' = [buffers EXCEPT ![u] = Some(content_changes[1])]
            /\ Validate(u, content_changes[1], outcome)
       ELSE UNCHANGED <<buffers, symbols_cache, scratch, diagnostics_cache, client>>
    /\ received' = received + 1
    /\ UNCHANGED <<files, calls, reply, formatVars, translateVars, extractVars, wordVars>>

\* The editor saves the document: its buffer is written to its file
SaveFile(u) ==
    /\ reply = Idle
    /\ buffers[u].some
    /\ files[u] # buffers[u]
    /\ files' = [files EXCEPT ![u] = buffers[u]]
    /\ UNCHANGED <<symbols_cache, diagnostics_cache, client, buffers, scratch, calls, reply>>
    /\ UNCHANGED <<received, formatVars, translateVars, extractVars, wordVars>>

\* The orders in which the symbols cache, a HashMap, yields its documents
CacheOrders ==
    LET docs == DOMAIN symbols_cache
    IN  {o \in [1..Cardinality(docs) -> docs] :
            \A a, b \in 1..Cardinality(docs) : a # b => o[a] # o[b]}

\* A request of the editor, on a document it has open, is answered
Answer(request, u, position, result) ==
    /\ reply = Idle
    /\ buffers[u].some
    /\ reply' = [request |-> request, uri |-> u, position |-> position, result |-> result]
    /\ UNCHANGED <<symbols_cache, diagnostics_cache, client, files, buffers, scratch, calls>>
    /\ UNCHANGED <<received, formatVars, translateVars, extractVars, wordVars>>

GotoDefinition(u, position) ==
    Answer("definition", u, position, goto_definition(symbols_cache, files, u, position))

References(u, position, order) ==
    Answer("references", u, position, references(files, order, u, position))

Rename(u, position, order) ==
    Answer("rename", u, position, rename(files, order, u, position, NewName))

Formatting(u) ==
    Answer("formatting", u, Position(0, 0), formatting(files, u))

PullDiagnostic(u) ==
    Answer("diagnostic", u, Position(0, 0), Result(diagnostic(diagnostics_cache, u)))

\* The response reaches the client.  A handler that panicked sends none:
\* the panic unwinds out of the task that serves the connection (main.rs
\* 978-989 catches nothing) and the server is gone
ClientReceive ==
    /\ reply # Idle
    /\ ~reply.result.panic
    /\ reply' = Idle
    /\ UNCHANGED <<symbols_cache, diagnostics_cache, client, files, buffers, scratch, calls>>
    /\ UNCHANGED <<received, formatVars, translateVars, extractVars, wordVars>>

Next ==
    \/ \E u \in Urls, o \in Outcomes : DidOpen(u, o)
    \/ \E u \in Urls, cs \in ContentChanges, o \in Outcomes : DidChange(u, cs, o)
    \/ \E u \in Urls : SaveFile(u)
    \/ \E u \in Urls, position \in Positions : GotoDefinition(u, position)
    \/ \E u \in Urls, position \in Positions, order \in CacheOrders :
          References(u, position, order)
    \/ \E u \in Urls, position \in Positions, order \in CacheOrders :
          Rename(u, position, order)
    \/ \E u \in Urls : Formatting(u)
    \/ \E u \in Urls : PullDiagnostic(u)
    \/ ClientReceive

\* The server, every handler run from its first line to its last
Spec == Init /\ [][Next]_vars

---------------------------------------------------------------------------
(* The server, validate_document interleaved at its await points *)

\* did_open: the notification arrives and validate_document is called
ReceiveOpen(u) ==
    /\ received < MaxCalls
    /\ ~buffers[u].some
    /\ files[u].some
    /\ buffers' = [buffers EXCEPT ![u] = files[u]]
    /\ received' = received + 1
    /\ calls' = Append(calls, NewCall(u, files[u].val))
    /\ UNCHANGED <<symbols_cache, diagnostics_cache, client, files, scratch, reply>>
    /\ UNCHANGED <<formatVars, translateVars, extractVars, wordVars>>

\* did_change: the notification arrives and, if it carries a change,
\* validate_document is called
ReceiveChange(u, content_changes) ==
    /\ received < MaxCalls
    /\ buffers[u].some
    /\ IF content_changes # <<>>
       THEN /\ buffers' = [buffers EXCEPT ![u] = Some(content_changes[1])]
            /\ calls' = Append(calls, NewCall(u, content_changes[1]))
       ELSE UNCHANGED <<buffers, calls>>
    /\ received' = received + 1
    /\ UNCHANGED <<symbols_cache, diagnostics_cache, client, files, scratch, reply>>
    /\ UNCHANGED <<formatVars, translateVars, extractVars, wordVars>>

\* validate_document, the first await: the write lock of the symbols
\* cache is taken and the extracted symbols are stored
ValidateIndex(i) ==
    /\ calls[i].pc = "index"
    /\ symbols_cache' = MapPut(symbols_cache, calls[i].uri, calls[i].symbols)
    /\ calls' = [calls EXCEPT ![i].pc = "parse"]
    /\ UNCHANGED <<diagnostics_cache, client, files, buffers, scratch, reply>>
    /\ UNCHANGED <<received, formatVars, translateVars, extractVars, wordVars>>

\* The write and parse step, were the validator to read what the scratch
\* file held before this call's write
ValidateParse_reading_earlier_write(i, outcome) ==
    /\ calls[i].pc = "parse"
    /\ scratch' = scratch_after(scratch, outcome, calls[i].text)
    /\ calls' = [calls EXCEPT
                    ![i].pc = "store",
                    ![i].outcome = outcome.kind,
                    ![i].read = IF outcome.kind = "write_failed" THEN None
                                ELSE IF scratch.some THEN scratch ELSE scratch',
                    ![i].diagnostics = diagnostics_of(outcome, calls[i].text)]
    /\ UNCHANGED <<symbols_cache, diagnostics_cache, client, files, buffers, reply>>
    /\ UNCHANGED <<received, formatVars, translateVars, extractVars, wordVars>>

\* validate_document: the text is written to the scratch file, the
\* validator reads that file, and its result becomes the diagnostics; no
\* await lies between the write and the validator's read
ValidateParse(i, outcome) ==
    /\ calls[i].pc = "parse"
    /\ scratch' = scratch_after(scratch, outcome, calls[i].text)
    /\ calls' = [calls EXCEPT
                    ![i].pc = "store",
                    ![i].outcome = outcome.kind,
                    ![i].read = IF outcome.kind = "write_failed" THEN None ELSE scratch',
                    ![i].diagnostics = diagnostics_of(outcome, calls[i].text)]
    /\ UNCHANGED <<symbols_cache, diagnostics_cache, client, files, buffers, reply>>
    /\ UNCHANGED <<received, formatVars, translateVars, extractVars, wordVars>>

\* validate_document, were it to return once the diagnostics are stored
ValidateStore_and_return(i) ==
    /\ calls[i].pc = "store"
    /\ diagnostics_cache' = MapPut(diagnostics_cache, calls[i].uri, calls[i].diagnostics)
    /\ calls' = [calls EXCEPT ![i].pc = "done"]
    /\ UNCHANGED <<symbols_cache, client, files, buffers, scratch, reply>>
    /\ UNCHANGED <<received, formatVars, translateVars, extractVars, wordVars>>

\* validate_document: "Store diagnostics in cache for pull diagnostics"
ValidateStore(i) ==
    /\ calls[i].pc = "store"
    /\ diagnostics_cache' = MapPut(diagnostics_cache, calls[i].uri, calls[i].diagnostics)
    /\ calls' = [calls EXCEPT ![i].pc = "publish"]
    /\ UNCHANGED <<symbols_cache, client, files, buffers, scratch, reply>>
    /\ UNCHANGED <<received, formatVars, translateVars, extractVars, wordVars>>

\* validate_document: "Also publish diagnostics for push model"
ValidatePublish(i) ==
    /\ calls[i].pc = "publish"
    /\ client' = [client EXCEPT ![calls[i].uri] = Some(calls[i].diagnostics)]
    /\ calls' = [calls EXCEPT ![i].pc = "done", ![i].published = @ + 1]
    /\ UNCHANGED <<symbols_cache, diagnostics_cache, files, buffers, scratch, reply>>
    /\ UNCHANGED <<received, formatVars, translateVars, extractVars, wordVars>>

NextAsync ==
    \/ \E u \in Urls : ReceiveOpen(u)
    \/ \E u \in Urls, cs \in ContentChanges : ReceiveChange(u, cs)
    \/ \E u \in Urls : SaveFile(u)
    \/ \E i \in 1..Len(calls) : ValidateIndex(i)
    \/ \E i \in 1..Len(calls), o \in Outcomes : ValidateParse(i, o)
    \/ \E i \in 1..Len(calls) : ValidateStore(i)
    \/ \E i \in 1..Len(calls) : ValidatePublish(i)

SpecAsync == Init /\ [][NextAsync]_vars

\* The step a validate_document invocation takes next
ValidateStep(i) ==
    /\ i \in 1..Len(calls)
    /\ \/ ValidateIndex(i)
       \/ \E o \in Outcomes : ValidateParse(i, o)
       \/ ValidateStore(i)
       \/ ValidatePublish(i)

\* The server where every handler that has been called is run on: the
\* runtime polls a handler's future until it completes, the locks it awaits
\* are released, the client takes its messages and the validator returns
SpecAsyncFair == SpecAsync /\ \A i \in 1..MaxCalls : WF_vars(ValidateStep(i))

---------------------------------------------------------------------------
(* The formatter alone: format_document applied to a text, and to its result *)

InitFormat ==
    /\ InitServer /\ InitTranslateOff /\ InitExtractOff /\ InitWordOff
    /\ ftext \in FormatTexts
    /\ fout = <<>> /\ fout2 = <<>> /\ fpc = "start"

\* format_document on the text
Format ==
    /\ fpc = "start"
    /\ fout' = format_document(ftext)
    /\ fpc' = "formatted"
    /\ UNCHANGED <<ftext, fout2, serverVars, translateVars, extractVars, wordVars>>

\* format_document on the formatted text
FormatAgain ==
    /\ fpc = "formatted"
    /\ fout2' = format_document(fout)
    /\ fpc' = "done"
    /\ UNCHANGED <<ftext, fout, serverVars, translateVars, extractVars, wordVars>>

NextFormat == Format \/ FormatAgain

SpecFormat == InitFormat /\ [][NextFormat]_vars

---------------------------------------------------------------------------
(* The translator alone: a validator failure turned into diagnostics *)

InitTranslate ==
    /\ InitServer /\ InitFormatOff /\ InitExtractOff /\ InitWordOff
    /\ treport \in Reports
    /\ ttext \in LiveTexts
    /\ tinfo = <<>> /\ tdiag = <<>> /\ tpc = "start"

\* validate_document's Err arm on the report and the live text
Translate ==
    /\ tpc = "start"
    /\ tinfo' = extract_line_info(treport)
    /\ tdiag' = error_diagnostics(treport, ttext)
    /\ tpc' = "done"
    /\ UNCHANGED <<treport, ttext, serverVars, formatVars, extractVars, wordVars>>

NextTranslate == Translate

SpecTranslate == InitTranslate /\ [][NextTranslate]_vars

---------------------------------------------------------------------------
(* The symbol extractor alone: extract_symbols applied to a text *)

InitExtract ==
    /\ InitServer /\ InitFormatOff /\ InitTranslateOff /\ InitWordOff
    /\ etext \in ExtractTexts
    /\ esyms = <<>> /\ epc = "start"

\* extract_symbols on the text, as validate_document calls it
Extract ==
    /\ epc = "start"
    /\ esyms' = extract_symbols("u1", etext)
    /\ epc' = "done"
    /\ UNCHANGED <<etext, serverVars, formatVars, translateVars, wordVars>>

NextExtract == Extract

SpecExtract == InitExtract /\ [][NextExtract]_vars

---------------------------------------------------------------------------
(* The position resolver alone: get_word_at_position at a cursor *)

InitWord ==
    /\ InitServer /\ InitFormatOff /\ InitTranslateOff /\ InitExtractOff
    /\ wtext \in WordTexts
    /\ wposition \in WordPositions
    /\ wword = <<>> /\ wpc = "start"

\* get_word_at_position on the text and the cursor
ResolveWord ==
    /\ wpc = "start"
    /\ wword' = get_word_at_position(wtext, wposition)
    /\ wpc' = "done"
    /\ UNCHANGED <<wtext, wposition, serverVars, formatVars, translateVars,
                   extractVars>>

NextWord == ResolveWord

SpecWord == InitWord /\ [][NextWord]_vars

---------------------------------------------------------------------------
(* Properties of the server *)

\* Call i takes the step that leaves position from
Steps(i, from, to) == calls[i].pc = from /\ calls'[i].pc = to

\* C1: a validate_document call on which the validator returned Ok stores
\* the empty diagnostic set for its document in the pull cache and
\* publishes the empty set for its document
C1_OkStoresAndPublishesEmpty ==
    [][\A i \in 1..Len(calls) :
          calls[i].outcome = "ok" =>
              /\ Steps(i, "store", "publish") =>
                    diagnostics_cache'[calls[i].uri] = <<>>
              /\ Steps(i, "publish", "done") =>
                    client'[calls[i].uri] = Some(<<>>)]_vars

\* C1, its case: a call that met an error left its diagnostic, and a later
\* call on the same document that met Ok has emptied both
C1_OkAfterError ==
    /\ Len(calls) = 2
    /\ calls[1].uri = calls[2].uri
    /\ calls[1].outcome = "err" /\ calls[1].pc = "done"
    /\ calls[1].diagnostics # <<>>
    /\ calls[2].outcome = "ok" /\ calls[2].pc = "done"
    /\ diagnostics_cache[calls[2].uri] = <<>>
    /\ client[calls[2].uri] = Some(<<>>)

\* The columns of the two `@foo` tokens on TextA's last line, line 2, each
\* from its sigil to its last character; the name foo is declared on
\* line 0, columns 10 to 13
RefTokenCols == (0..3) \cup (5..8)

\* C2: in a document whose text on disk is the text last validated and
\* which declares (defalias foo ...) on one line, goto_definition at every
\* character position of a later `@foo`, sigil included, returns the range
\* of the declared name
C2_DefinitionAtEveryPositionOfReference ==
    (/\ reply.request = "definition"
     /\ files[reply.uri] = Some(TextA)
     /\ buffers[reply.uri] = Some(TextA)
     /\ reply.position.line = 2
     /\ reply.position.character \in RefTokenCols)
    => reply.result =
          Result(Location(reply.uri, Range(Position(0, 10), Position(0, 13))))

\* The word under the cursor of the request answered by reply
ReplyWord == get_word_at_position(files[reply.uri].val, reply.position).word

\* The edits of a WorkspaceEdit's changes stand one to one with the
\* locations, each under its location's document and over its range
OneEditPerLocation(changes, locations) ==
    /\ DOMAIN changes = {locations[i].uri : i \in 1..Len(locations)}
    /\ \A d \in DOMAIN changes :
          /\ Len(changes[d]) =
                Cardinality({i \in 1..Len(locations) : locations[i].uri = d})
          /\ \A j \in 1..Len(changes[d]) :
                \E i \in 1..Len(locations) :
                    locations[i] = Location(d, changes[d][j].range)
    /\ \A i \in 1..Len(locations) :
          \E j \in 1..Len(changes[locations[i].uri]) :
              changes[locations[i].uri][j].range = locations[i].range

\* C3: rename answers with one edit per location that references returns
\* for the same position, under the location's document and over its
\* range; the new text is `@newName` when the word under the cursor starts
\* with `@` and newName otherwise; without locations there is no edit
C3_RenameEditsMatchReferences ==
    reply.request = "rename" =>
        \E order \in CacheOrders :
            LET refs == references(files, order, reply.uri, reply.position) IN
            /\ reply.result.panic = refs.panic
            /\ reply.result.some = refs.some
            /\ refs.some =>
                  /\ OneEditPerLocation(reply.result.val, refs.val)
                  /\ \A d \in DOMAIN reply.result.val :
                        \A j \in 1..Len(reply.result.val[d]) :
                            reply.result.val[d][j].new_text =
                                IF Head(ReplyWord) = "@"
                                THEN <<"@">> \o NewName ELSE NewName

\* C3, its case: `@foo` stands three times in two tracked documents, and
\* the rename answers with three edits `@b` that touch both
C3_ThreeEditsInTwoDocuments ==
    /\ reply.request = "rename"
    /\ reply.result.some
    /\ DOMAIN reply.result.val = Urls
    /\ Len(reply.result.val["u1"]) = 2
    /\ Len(reply.result.val["u2"]) = 1
    /\ \A d \in Urls : \A j \in 1..Len(reply.result.val[d]) :
          reply.result.val[d][j].new_text = <<"@", "b">>

\* A character of an identifier: alphanumeric, `_`, `-` or `@`
is_identifier_char(c) == is_word_char(c) \/ c = "@"

\* The columns from to to (0-based, to excluded) of the line are a proper
\* part of a longer run of identifier characters
ProperPart(line, from, to) ==
    \/ from > 0 /\ is_identifier_char(line[from])
    \/ to < Len(line) /\ is_identifier_char(line[to + 1])

\* The name stands at column col (0-based) of the line as a whole token
WholeToken(line, col, name) ==
    /\ col + Len(name) <= Len(line)
    /\ SubSeq(line, col + 1, col + Len(name)) = name
    /\ ~ProperPart(line, col, col + Len(name))

\* The lines of the text of document d on disk
DiskLines(d) == IF files[d].some THEN lines(files[d].val) ELSE <<>>

\* C4: the reference search for a layer name returns no location that is a
\* proper part of a longer identifier, and returns every place of a
\* tracked document where the name stands as a whole token
C4_LayerReferencesAreWholeTokens ==
    (/\ reply.request = "references"
     /\ ~reply.result.panic
     /\ ReplyWord # <<>>
     /\ Head(ReplyWord) # "@")
    => /\ \A i \in 1..Len(reply.result.val) :
             LET loc == reply.result.val[i] IN
             ~ProperPart(DiskLines(loc.uri)[loc.range.start.line + 1],
                         loc.range.start.character, loc.range.end.character)
       /\ \A d \in DOMAIN symbols_cache :
             \A l \in 1..Len(DiskLines(d)) :
                 \A col \in 0..Len(DiskLines(d)[l]) :
                     WholeToken(DiskLines(d)[l], col, ReplyWord) =>
                         \E i \in 1..Len(reply.result.val) :
                             reply.result.val[i] =
                                 Location(d, Range(Position(l - 1, col),
                                                   Position(l - 1, col + Len(ReplyWord))))

\* C5: references on an alias reference `@name` returns, for every tracked
\* document whose text on disk is the text last validated and declares
\* name by a defalias form, a location that covers the declared name
C5_ReferencesIncludeDeclaration ==
    (/\ reply.request = "references"
     /\ ~reply.result.panic
     /\ ReplyWord # <<>>
     /\ Head(ReplyWord) = "@")
    => \A d \in DOMAIN symbols_cache :
          (/\ buffers[d] = files[d]
           /\ Tail(ReplyWord) \in DOMAIN symbols_cache[d].aliases)
          => /\ reply.result.some
             /\ \E i \in 1..Len(reply.result.val) :
                   reply.result.val[i] =
                       Location(d, symbols_cache[d].aliases[Tail(ReplyWord)].range)

---------------------------------------------------------------------------
(* Properties of the formatter *)

\* C6: formatting is idempotent: the formatter applied to its own output
\* returns that output, character for character
C6_FormatIdempotent == fpc = "done" => fout2 = fout

\* The template of the text handed to the formatter
Template == parse_defsrc_layout(ftext)

\* The line of item k of a block at the indentation: the item after the
\* indentation and two spaces, then the spaces that fill its column
ItemLine(indent, item, width) ==
    spaces(indent + 2) \o item
    \o (IF chars_count(item) < width THEN spaces(width - chars_count(item)) ELSE <<>>)

\* The lines of a block whose items are as many as the template's columns
BlockLines(first_line, items, layout) ==
    LET indent == LeadingWs(first_line) IN
    <<spaces(indent) \o KwDeflayer \o <<" ">> \o layer_name_of(first_line)>>
    \o [k \in 1..Len(items) |-> ItemLine(indent, items[k], layout[k])]
    \o <<spaces(indent) \o <<")">>>>

RECURSIVE ExpectedLines(_, _, _)
\* The lines the formatter is to emit for the lines from index i (0-based)
\* on: the lines of every block with as many items as the template laid
\* out, every other line as it stands
ExpectedLines(ls, i, layout) ==
    IF i >= Len(ls) THEN <<>>
    ELSE IF starts_with(trim(ls[i + 1]), KwDeflayer)
         THEN LET block == deflayer_items(ls, i) IN
              (IF Len(block.items) = Len(layout)
               THEN BlockLines(ls[i + 1], block.items, layout)
               ELSE SubSeq(ls, i + 1, block.next))
              \o ExpectedLines(ls, block.next, layout)
         ELSE <<ls[i + 1]>> \o ExpectedLines(ls, i + 1, layout)

RECURSIVE MatchingBlocks(_, _, _)
\* The number of blocks, from line index i (0-based) on, with as many items
\* as the template
MatchingBlocks(ls, i, layout) ==
    IF i >= Len(ls) THEN 0
    ELSE IF starts_with(trim(ls[i + 1]), KwDeflayer)
         THEN LET block == deflayer_items(ls, i) IN
              (IF Len(block.items) = Len(layout) THEN 1 ELSE 0)
              + MatchingBlocks(ls, block.next, layout)
         ELSE MatchingBlocks(ls, i + 1, layout)

\* C7: in every deflayer block with as many items as the template, item k
\* stands on a line of its own, after the block's indentation and two
\* spaces, whole, followed by template[k] - width(item k) spaces when it is
\* shorter than template[k] and by none otherwise; the header and the
\* closing parenthesis stand at the block's indentation
C7_MatchingBlocksAreLaidOut ==
    (fpc # "start" /\ Template.some)
    => lines(fout) = ExpectedLines(lines(ftext), 0, Template.val)

\* C7, its case: an indented block with three items under the template of
\* widths 1, 2, 1: item y padded by one space, the wider items (t 1) and zz
\* whole and unpadded, header and parenthesis at the indentation
C7_IndentedBlockLaidOut ==
    /\ fpc = "formatted"
    /\ ftext = join(<<FSrc, FSym>>, <<"\n">>)
    /\ lines(fout) = <<FSrc,
                       <<" ", " ">> \o KwDeflayer \o <<" ", "s">>,
                       <<" ", " ", " ", " ", "(", "t", " ", "1", ")">>,
                       <<" ", " ", " ", " ", "y", " ">>,
                       <<" ", " ", " ", " ", "z", "z">>,
                       <<" ", " ", ")">>>>

\* C8: the formatter changes only the blocks with as many items as the
\* template: a text without template, and a text none of whose blocks
\* matches the template, come back byte for byte, final newline included
C8_UnmatchedTextUnchanged ==
    (/\ fpc # "start"
     /\ \/ ~Template.some
        \/ MatchingBlocks(lines(ftext), 0, Template.val) = 0)
    => fout = ftext

---------------------------------------------------------------------------
(* Properties of the diagnostic translator *)

\* Position a is before position b in (line, column) order
Before(a, b) ==
    a.line < b.line \/ (a.line = b.line /\ a.character < b.character)

\* C9: every diagnostic built from a validator failure ends strictly after
\* it starts, whatever the report and whatever the live text
C9_RangeNeverEmptyNorInverted ==
    tpc = "done" =>
        \A i \in 1..Len(tdiag) : Before(tdiag[i].range.start, tdiag[i].range.end)

\* C9, its case: the markers of the report name an end line before the
\* start line, and the diagnostic is the one-character span at the start
C9_InvertedReportNormalised ==
    /\ tpc = "done"
    /\ tinfo[1] > tinfo[3]
    /\ Len(tdiag) = 1
    /\ tdiag[1].range = Range(Position(tinfo[1], tinfo[2]),
                              Position(tinfo[1], tinfo[2] + 1))

\* The number in the gutter of a line of the report: what stands before
\* the first bar, -1 when that is no number
GutterOf(line) ==
    LET bar == FindIdx(line, <<GutterBar>>)
    IN  parse_u32(trim(IF bar < 0 THEN line ELSE Take(line, bar)))

\* A 1-based number made 0-based
ZeroBased(n) == IF n > 0 THEN n - 1 ELSE 0

\* The lines of the report that carry a start marker, an end marker, and a
\* numeric gutter
StartMarkerLines(ls) ==
    {i \in 1..Len(ls) : contains(ls[i], StartMarker) /\ GutterOf(ls[i]) >= 0}

EndMarkerLines(ls) ==
    {i \in 1..Len(ls) :
        (contains(ls[i], EndMarker) \/ contains(ls[i], CloseMarker))
        /\ GutterOf(ls[i]) >= 0}

\* The numbers L and C of the first ".kbd:L:C]" of the report, <<>> when
\* there is none
LocatorOf(report) ==
    LET at == FindIdx(report, KbdMarker)
        after == Drop(report, at + Len(KbdMarker))
        close == FindCharIdx(after, {"]"})
        parts == SplitOn(Take(after, close), ":")
    IN  IF at < 0 \/ close < 0 \/ Len(parts) < 2 THEN <<>>
        ELSE IF parse_u32(parts[1]) < 0 \/ parse_u32(parts[2]) < 0 THEN <<>>
        ELSE <<parse_u32(parts[1]), parse_u32(parts[2])>>

\* The position the report states, by the priority: markers, locator, origin
StatedPosition(report) ==
    LET ls == lines(report)
        starts == StartMarkerLines(ls)
        ends == EndMarkerLines(ls)
        loc == LocatorOf(report)
    IN  IF starts # {} /\ ends # {}
        THEN <<ZeroBased(GutterOf(ls[CHOOSE i \in starts : \A j \in starts : i <= j])),
               0,
               ZeroBased(GutterOf(ls[CHOOSE i \in ends : \A j \in ends : i >= j]))>>
        ELSE IF loc # <<>>
        THEN <<ZeroBased(loc[1]), ZeroBased(loc[2]), ZeroBased(loc[1])>>
        ELSE <<0, 0, 0>>

\* C10: the position taken from a report is, when the report has a start
\* marker line and an end marker line with numeric gutters s and e, line
\* s-1, column 0, end line e-1 (the first such start, the last such end);
\* otherwise, when it has a locator .kbd:L:C], line L-1, column C-1;
\* otherwise line 0, column 0; the extraction always yields a position
C10_ExtractionFollowsPriority ==
    tpc = "done" => tinfo = StatedPosition(treport)

\* C10, its case: the report holds the locator [c.kbd:78:1] and the marker
\* lines of gutters 79 and 85, and the markers win
C10_MarkersBeforeLocator ==
    /\ tpc = "done"
    /\ treport = join(<<RHeader, RStart79, REnd85>>, <<"\n">>)
    /\ tinfo = <<78, 0, 84>>


---------------------------------------------------------------------------
(* Properties of the symbol extractor *)

\* The line opens a declaration with the keyword
OpensWith(l, kw) == starts_with(trim_start(l), kw)

\* What follows the keyword on the line that opens a declaration
AfterKeyword(l, kw) == trim_start(trim_start_matches(trim_start(l), kw))

\* The opening line carries no name
Nameless(l, kw) ==
    LET a == AfterKeyword(l, kw) IN a = <<>> \/ a[1] \in {"(", ")"}

\* The column at which the text of a line starts
IndentOf(l) == len(l) - len(trim_start(l))

\* The first character of the text of a line is one of cs
TextStartsIn(l, cs) == LET t == trim_start(l) IN t # <<>> /\ t[1] \in cs

\* The least element of a non-empty set of numbers, 0 for the empty set
Least(S) == IF S = {} THEN 0 ELSE CHOOSE j \in S : \A k \in S : j <= k

\* The first line after line i (1-based) that is neither blank, a ;
\* comment, nor a closing parenthesis; 0 when there is none
NameLineAsClaimed(ls, i) ==
    Least({j \in (i + 1)..Len(ls) :
              trim_start(ls[j]) # <<>> /\ ~TextStartsIn(ls[j], {";", ")"})})

\* The first line after line i (1-based) that is neither blank, a ;
\* comment, nor starts with an opening parenthesis, unless it starts with
\* a closing parenthesis; 0 when there is none
NameLine(ls, i) ==
    LET j == Least({k \in (i + 1)..Len(ls) :
                       trim_start(ls[k]) # <<>> /\ ~TextStartsIn(ls[k], {";", "("})})
    IN  IF j # 0 /\ TextStartsIn(ls[j], {")"}) THEN 0 ELSE j

\* The lines that open a declaration with the keyword
Openers(ls, kw) == {i \in 1..Len(ls) : OpensWith(ls[i], kw)}

\* The name of the declaration that line i opens; <<>> when it has none
DeclName(ls, i, kw) ==
    IF ~Nameless(ls[i], kw) THEN first_token(AfterKeyword(ls[i], kw))
    ELSE IF NameLine(ls, i) = 0 THEN <<>>
    ELSE first_token(trim_start(ls[NameLine(ls, i)]))

\* The entry of name n in index m spans the first token of line j (1-based)
RecordedOn(m, n, ls, j) ==
    /\ n \in DOMAIN m
    /\ m[n].range = Range(Position(j - 1, IndentOf(ls[j])),
                          Position(j - 1, IndentOf(ls[j]) + len(n)))

\* The claim as worded, for one keyword and the index of its names
NameRecordedAsClaimed(ls, kw, m) ==
    \A i \in Openers(ls, kw) :
        Nameless(ls[i], kw) /\ NameLineAsClaimed(ls, i) # 0 =>
            RecordedOn(m, first_token(trim_start(ls[NameLineAsClaimed(ls, i)])),
                       ls, NameLineAsClaimed(ls, i))

\* C11 as worded: for a declaration whose opening line carries no name,
\* the index holds the first token of the first following line that is
\* neither blank, a ; comment, nor a closing parenthesis, with a range on
\* that line that starts at the token's column and spans the token.
C11_NameAfterBlankCommentAndClosing ==
    epc = "done" =>
        /\ NameRecordedAsClaimed(lines(etext), KwDefalias, esyms.aliases)
        /\ NameRecordedAsClaimed(lines(etext), KwDeflayer, esyms.layers)

\* The amended claim, for one keyword and the index of its names
NameRecorded(ls, kw, m) ==
    /\ DOMAIN m = {DeclName(ls, i, kw) : i \in Openers(ls, kw)} \ {<<>>}
    /\ \A i \in Openers(ls, kw) :
           /\ Nameless(ls[i], kw)
           /\ NameLine(ls, i) # 0
           /\ \A i2 \in Openers(ls, kw) :
                  i2 > i => DeclName(ls, i2, kw) # DeclName(ls, i, kw)
           => RecordedOn(m, DeclName(ls, i, kw), ls, NameLine(ls, i))

\* C11, amended: for a declaration whose opening line carries no name, the
\* extractor looks at the first following line that is neither blank, a ;
\* comment, nor starts with an opening parenthesis.  If there is no such
\* line, or it starts with a closing parenthesis, the declaration records
\* nothing; otherwise the first token of that line is recorded and, unless
\* a later declaration of the same kind has the same name, its range lies
\* on that line, starts at the token's column and spans the token.
C11_NameLineRecorded ==
    epc = "done" =>
        /\ NameRecorded(lines(etext), KwDefalias, esyms.aliases)
        /\ NameRecorded(lines(etext), KwDeflayer, esyms.layers)

\* A declaration opens on line 0, a comment follows, and the name stands
\* indented on line 2: the index holds it at (2,2)-(2,5)
C11_NameAfterComment ==
    /\ epc = "done"
    /\ etext = join(<<EOpenAlias, ENote, EName>>, <<"\n">>)
    /\ DOMAIN esyms.aliases = {<<"f", "o", "o">>}
    /\ esyms.aliases[<<"f", "o", "o">>].range = Range(Position(2, 2), Position(2, 5))

---------------------------------------------------------------------------
(* Properties of the position resolver *)

\* The lines of the text at the cursor
WordLines == lines(wtext)

\* The line of the cursor is past the last line
LinePastLast == wposition.line >= Len(WordLines)

\* The character offset of the cursor is at or past the end of its line
AtOrPastLineEnd ==
    ~LinePastLast /\ wposition.character >= Len(WordLines[wposition.line + 1])

\* The character at the cursor is not an identifier character
OnNonIdentifier ==
    /\ ~LinePastLast /\ ~AtOrPastLineEnd
    /\ ~is_word_char(WordLines[wposition.line + 1][wposition.character + 1])

\* C12: the word at a position is the empty string whenever the line is
\* past the last line, the character offset is at or past the end of the
\* line, or the character at the position is not alphanumeric, _ or -,
\* whatever precedes the position on the line.
C12_EmptyOffIdentifier ==
    wpc = "done" /\ (LinePastLast \/ AtOrPastLineEnd \/ OnNonIdentifier)
        => wword = Word(<<>>)

---------------------------------------------------------------------------
(* Properties of the server, continued *)

\* C13: for every text, texts with characters of more than one code unit
\* included, and every cursor position, a definition, references or
\* rename request completes with a result or with no result; none aborts.
C13_QueriesComplete ==
    reply # Idle /\ reply.request \in {"definition", "references", "rename"}
        => ~reply.result.panic

\* C14: a validate_document call on which the validator reported a failure
\* stores exactly one diagnostic for its document in the pull cache and
\* publishes that same one-element set for its document
C14_ErrStoresAndPublishesOne ==
    [][\A i \in 1..Len(calls) :
          calls[i].outcome = "err" =>
              /\ Steps(i, "store", "publish") =>
                    /\ Len(diagnostics_cache'[calls[i].uri]) = 1
                    /\ diagnostics_cache'[calls[i].uri] = calls[i].diagnostics
              /\ Steps(i, "publish", "done") =>
                    /\ Len(client'[calls[i].uri].val) = 1
                    /\ client'[calls[i].uri] = Some(calls[i].diagnostics)]_vars

\* C14, its case: a call on which the validator failed has finished, and
\* the pull cache and the client hold one and the same diagnostic
C14_ErrDone ==
    \E i \in 1..Len(calls) :
        /\ calls[i].outcome = "err" /\ calls[i].pc = "done"
        /\ Len(diagnostics_cache[calls[i].uri]) = 1
        /\ client[calls[i].uri] = Some(diagnostics_cache[calls[i].uri])

\* The one diagnostic of a failed scratch write: an error at (0,0)-(0,0)
IsWriteFailure(ds) ==
    /\ Len(ds) = 1
    /\ ds[1].range = Range(Position(0, 0), Position(0, 0))
    /\ ds[1].severity = "ERROR"

\* C15: when the write of the scratch file fails the validator is not
\* invoked (it reads nothing and the scratch file is as it was), the
\* symbol index of the document has been rebuilt from the text, and one
\* error diagnostic with range (0,0)-(0,0) is stored and published, the
\* call running to its end like any other
C15_WriteFailureIsOneDiagnostic ==
    [][\A i \in 1..Len(calls) :
          /\ Steps(i, "index", "parse") =>
                symbols_cache'[calls[i].uri] = extract_symbols(calls[i].uri, calls[i].text)
          /\ Steps(i, "parse", "store") /\ calls'[i].outcome = "write_failed" =>
                /\ calls'[i].read = None
                /\ scratch' = scratch
          /\ calls[i].outcome = "write_failed" =>
                /\ Steps(i, "store", "publish") =>
                      IsWriteFailure(diagnostics_cache'[calls[i].uri])
                /\ Steps(i, "publish", "done") =>
                      /\ IsWriteFailure(client'[calls[i].uri].val)
                      /\ client'[calls[i].uri].some]_vars

\* C15, its case: a call whose scratch write failed has finished; the
\* index holds the names of its text, and cache and client its diagnostic
C15_WriteFailureDone ==
    \E i \in 1..Len(calls) :
        /\ calls[i].outcome = "write_failed" /\ calls[i].pc = "done"
        /\ calls[i].text = TextA
        /\ DOMAIN symbols_cache[calls[i].uri].aliases = {<<"f", "o", "o">>}
        /\ IsWriteFailure(diagnostics_cache[calls[i].uri])
        /\ client[calls[i].uri] = Some(diagnostics_cache[calls[i].uri])

\* C16: once the change notifications of a document have been processed,
\* a definition, references, rename or formatting request is answered from
\* the text the last notification carried, whatever text the file on disk
\* holds: the response is the one the handler gives on the editor's texts.
C16_QueriesReadLiveText ==
    reply # Idle =>
        CASE reply.request = "definition" ->
                reply.result =
                    goto_definition(symbols_cache, buffers, reply.uri, reply.position)
          [] reply.request = "references" ->
                \E order \in CacheOrders :
                    reply.result = references(buffers, order, reply.uri, reply.position)
          [] reply.request = "rename" ->
                \E order \in CacheOrders :
                    reply.result =
                        rename(buffers, order, reply.uri, reply.position, NewName)
          [] reply.request = "formatting" ->
                reply.result = formatting(buffers, reply.uri)
          [] OTHER -> TRUE

RECURSIVE PublishedBy(_)
\* The number of notifications the first n calls have published
PublishedBy(n) == IF n = 0 THEN 0 ELSE PublishedBy(n - 1) + calls[n].published

\* C17 as worded: every open and every change notification results in
\* exactly one published diagnostic notification.  Once no handler is in
\* flight nothing more is published for the notifications received so
\* far, so by then the publications number the notifications received.
C17_EveryNotificationPublishesOnce ==
    (\A i \in 1..Len(calls) : calls[i].pc = "done")
        => PublishedBy(Len(calls)) = received

\* C17, amended: every open notification and every change notification
\* that carries a content change eventually results in the symbol index
\* entry of its document being replaced by the names of its text and in
\* exactly one published diagnostic notification for its document,
\* provided the validator call returns.
C17_EveryValidationPublishesOnce ==
    /\ \A i \in 1..MaxCalls :
          (Len(calls) >= i /\ calls[i].pc = "index")
              ~> (/\ Len(calls) >= i
                  /\ calls[i].pc = "parse"
                  /\ calls[i].uri \in DOMAIN symbols_cache
                  /\ symbols_cache[calls[i].uri] = calls[i].symbols)
    /\ \A i \in 1..MaxCalls :
          (Len(calls) >= i)
              ~> (/\ Len(calls) >= i
                  /\ calls[i].pc = "done"
                  /\ calls[i].published = 1
                  /\ client[calls[i].uri].some)
    /\ [](\A i \in 1..Len(calls) :
             calls[i].published = IF calls[i].pc = "done" THEN 1 ELSE 0)

\* C17, its case: a document was opened and then changed, and both
\* notifications have had their one publication
C17_OpenAndChangePublished ==
    /\ Len(calls) = 2
    /\ calls[1].uri = calls[2].uri
    /\ calls[1].text # calls[2].text
    /\ calls[1].pc = "done" /\ calls[1].published = 1
    /\ calls[2].pc = "done" /\ calls[2].published = 1
    /\ client[calls[2].uri].some

\* The entry of a document in a cache, None when it has none
EntryOf(cache, u) == IF u \in DOMAIN cache THEN Some(cache[u]) ELSE None

\* The documents whose symbol index or diagnostic entry a step changes
ChangedEntries ==
    {u \in Urls : \/ EntryOf(symbols_cache', u) # EntryOf(symbols_cache, u)
                  \/ EntryOf(diagnostics_cache', u) # EntryOf(diagnostics_cache, u)}

\* C18: a validation of document D with text T leaves D's symbol index
\* entry holding exactly the names extracted from T, and changes the
\* symbol index and diagnostic entries of no other document; the handlers
\* of definition, references, rename, formatting and pull-diagnostic
\* requests change neither cache.
C18_ValidateReplacesOnlyItsEntry ==
    [][/\ Cardinality(ChangedEntries) <= 1
       /\ ChangedEntries # {} => received' = received + 1
       /\ reply' # reply => ChangedEntries = {}
       /\ \A u \in Urls :
             buffers'[u].some =>
                EntryOf(symbols_cache', u) = Some(extract_symbols(u, buffers'[u].val))]_vars

\* C18, its case: the document was opened with one text and changed to
\* another, and the name only the first text declares is gone
C18_EarlierNamesGone ==
    /\ files["u1"] = Some(TextA)
    /\ buffers["u1"] = Some(TextB)
    /\ DOMAIN symbols_cache["u1"].aliases = {}
    /\ DOMAIN symbols_cache["u1"].layers = {<<"n", "a", "v", "i", "g", "a", "t", "e">>}

\* No validation is in flight
NoneInFlight == \A i \in 1..Len(calls) : calls[i].pc = "done"

\* The calls for a document, and the last of them to arrive
CallsFor(u) == {i \in 1..Len(calls) : calls[i].uri = u}

LatestCall(u) == CHOOSE i \in CallsFor(u) : \A j \in CallsFor(u) : j <= i

\* C19: under any interleaving of the validations of a document, once none
\* is in flight the symbol index entry, the pull-cache entry and the last
\* published notification of the document all derive from the text of the
\* notification received last: the index holds the names of that text, and
\* cache and client hold the diagnostics of a validation of that text.
C19_CachesFollowLatestText ==
    NoneInFlight =>
        \A u \in Urls :
            CallsFor(u) # {} =>
                /\ symbols_cache[u] = calls[LatestCall(u)].symbols
                /\ \E j \in CallsFor(u) :
                       /\ calls[j].text = calls[LatestCall(u)].text
                       /\ diagnostics_cache[u] = calls[j].diagnostics
                /\ \E j \in CallsFor(u) :
                       /\ calls[j].text = calls[LatestCall(u)].text
                       /\ client[u] = Some(calls[j].diagnostics)

\* C20: under any interleaving, the validator a validation invokes reads
\* exactly the text of that validation.
C20_ValidatorReadsItsText ==
    \A i \in 1..Len(calls) :
        calls[i].pc \in {"store", "publish", "done"} /\ calls[i].outcome # "write_failed"
            => calls[i].read = Some(calls[i].text)

\* C20, its case: two validations of different texts overlapped, the one
\* called first wrote the scratch file last, and each validator read the
\* text of its own validation
C20_OverlappingValidationsReadOwnText ==
    /\ Len(calls) = 2
    /\ calls[1].text # calls[2].text
    /\ calls[1].read = Some(calls[1].text)
    /\ calls[2].read = Some(calls[2].text)
    /\ scratch = Some(calls[1].text)

\* Two ranges cover a common character position
Overlap(r1, r2) ==
    /\ r1.start.line = r1.end.line /\ r2.start.line = r2.end.line
    /\ r1.start.line = r2.start.line
    /\ r1.start.character < r2.end.character
    /\ r2.start.character < r1.end.character

\* C21: the edits rename produces for one document are pairwise
\* non-overlapping: no two edits of the same document's list cover a
\* common character position.
C21_RenameEditsDoNotOverlap ==
    reply.request = "rename" /\ reply.result.some =>
        \A d \in DOMAIN reply.result.val :
            \A i, j \in 1..Len(reply.result.val[d]) :
                i # j => ~Overlap(reply.result.val[d][i].range,
                                  reply.result.val[d][j].range)

\* C22: the reference search for an alias `@name` returns only locations
\* whose whole token is `@name`: none lies inside a reference to another
\* alias whose name has name as a proper prefix, such as `@name2`.
C22_AliasReferencesAreWholeTokens ==
    (/\ reply.request = "references"
     /\ ~reply.result.panic
     /\ ReplyWord # <<>>
     /\ Head(ReplyWord) = "@")
    => \A i \in 1..Len(reply.result.val) :
          LET loc == reply.result.val[i] IN
          ~ProperPart(DiskLines(loc.uri)[loc.range.start.line + 1],
                      loc.range.start.character, loc.range.end.character)

---------------------------------------------------------------------------
(* Properties of the formatter, continued *)

\* The characters of a text that are not whitespace, in their order
NonWhitespace(s) == SelectSeq(s, LAMBDA c : ~is_whitespace(c))

\* C23: formatting changes whitespace only: the non-whitespace characters
\* of the formatted text are those of the text, in the same order, text
\* that follows the closing parenthesis of a deflayer block on its line
\* included.
C23_FormatChangesWhitespaceOnly ==
    fpc # "start" /\ fpc # "off" => NonWhitespace(fout) = NonWhitespace(ftext)
===========================================================================
